---- MODULE Spec2Model ----
(***************************************************************************)
(* Heap-based page allocator                                               *)
(* (rs/replicated_state/src/page_map/page_allocator/heap.rs).              *)
(*                                                                         *)
(* The state is the Rust heap of HeapBasedPage objects, each behind an     *)
(* Arc (strong count + storage), the process-wide gauge ALLOCATED_PAGES    *)
(* and the record of the last call (operation, argument, result).          *)
(*                                                                         *)
(* rt is the position of a caller that chains calls; threads is the        *)
(* position of each thread in SpecThreads.  The test driver's handle       *)
(* (rs/ic_fondue/src/ic_manager/handle.rs) has its own state: handle and   *)
(* taken (IcHandle and the endpoints handed out), poll (assert_ready).     *)
(***************************************************************************)
EXTENDS Integers, Sequences, FiniteSets, TLC

VARIABLES heap, ALLOCATED_PAGES, last, rt, threads, handle, taken, poll

vars == <<heap, ALLOCATED_PAGES, last, rt, threads, handle, taken, poll>>

\* what a single caller of the allocator leaves alone
driver == <<threads, handle, taken, poll>>

\* what a caller that does not chain calls leaves alone
others == <<rt, threads, handle, taken, poll>>

\* the allocator's own state
allocator == <<heap, ALLOCATED_PAGES>>

(***************************************************************************)
(* Bounds of the model.                                                    *)
(***************************************************************************)
\* bytes in a page (the platform's page size, scaled down)
PageSize == 2
\* HeapBasedPage objects ever constructed in one behaviour
MaxPages == 3
\* HeapBasedPage objects ever constructed in one behaviour of SpecAccounting
MaxAccPages == 5
\* longest batch given to allocate / serialize_page_delta
MaxBatch == 2
\* handles (Arc strong count) per page
MaxHandles == 2
\* threads of SpecThreads
NumThreads == 2
\* endpoints per list of an IcHandle
MaxEndpoints == 3
\* latest time after started_at, in seconds, at which assert_ready is called
MaxStart == 92

(***************************************************************************)
(* Values.                                                                 *)
(***************************************************************************)
ByteVals == {0, 255}

PageBytes == [1..PageSize -> ByteVals]

ZeroPage == [i \in 1..PageSize |-> 0]

FFPage == [i \in 1..PageSize |-> 255]

\* the page contents callers hand to allocate in Spec
PageContents == {ZeroPage, FFPage}

PageIndex == {3, 7}

SeqUpTo(S, n) == UNION {[1..k -> S] : k \in 0..n}

\* A slot whose storage has been released (the Arc's strong count hit zero).
NoStorage == <<>>

\* PageAllocatorSerialization: Empty | Heap | Mmap(..)
AllocatorTags == {[tag |-> "Empty"], [tag |-> "Heap"], [tag |-> "Mmap"]}

\* PageSerialization { index, bytes }
PageSerialization == [index : PageIndex, bytes : PageBytes]

\* PageDeltaSerialization::Heap(Vec<PageSerialization>)
HeapDelta(pages) == [tag |-> "Heap", pages |-> pages]

\* PageDeltaSerialization::Empty
EmptyDelta == [tag |-> "Empty", pages |-> <<>>]

\* PageDeltaSerialization::Mmap { .. }: the records carry no bytes
MmapDeltas == {[tag |-> "Mmap", pages |-> s] : s \in SeqUpTo([index : PageIndex], 1)}

\* the only value of struct HeapBasedPageAllocator {}
DefaultAllocator == [type |-> "HeapBasedPageAllocator"]

Ok(v) == [status |-> "ok", val |-> v]

\* unreachable!(..): the call does not return
Panic == [status |-> "panic", val |-> <<>>]

(***************************************************************************)
(* HeapBasedPage and its Arc.                                              *)
(***************************************************************************)
\* HeapBasedPage::new: ALLOCATED_PAGES.inc(); Self(*contents)
HeapBasedPage_new_noinc(counter, bytes) == [counter |-> counter, page |-> bytes]

HeapBasedPage_new(counter, bytes) == [counter |-> counter + 1, page |-> bytes]

\* Drop for HeapBasedPage: ALLOCATED_PAGES.dec()
HeapBasedPage_drop_twice(counter) == counter - 2

HeapBasedPage_drop(counter) == counter - 1

\* Arc::new(page): one handle, the page stored behind it
Arc_new(page) == [strong |-> 1, storage |-> page]

\* Page::clone: one more handle to the same storage
Arc_clone(slot) == [slot EXCEPT !.strong = @ + 1]

\* Dropping one handle: the last one runs Drop for HeapBasedPage and frees
\* the storage.  st = [heap, counter]
Arc_drop_eager(st, p) ==
    [heap |-> [st.heap EXCEPT ![p] = [strong |-> @.strong - 1, storage |-> NoStorage]],
     counter |-> HeapBasedPage_drop(st.counter)]

Arc_drop(st, p) ==
    IF st.heap[p].strong = 1
    THEN [heap |-> [st.heap EXCEPT ![p] = [strong |-> 0, storage |-> NoStorage]],
          counter |-> HeapBasedPage_drop(st.counter)]
    ELSE [heap |-> [st.heap EXCEPT ![p].strong = @ - 1],
          counter |-> st.counter]

\* PageInner::contents: &self.0
contents(h, p) == h[p].storage

Live(h) == {p \in 1..Len(h) : h[p].strong > 0}

Released(h) == {p \in 1..Len(h) : h[p].strong = 0}

(***************************************************************************)
(* HeapBasedPageAllocator.  st = [heap, counter]; the result adds ret.     *)
(***************************************************************************)
\* pages.iter().map(|(page_index, contents)| ..).collect()
RECURSIVE allocate_collect(_, _)
allocate_collect(st, pages) ==
    IF pages = <<>>
    THEN [heap |-> st.heap, counter |-> st.counter, ret |-> <<>>]
    ELSE LET done == allocate_collect(st, SubSeq(pages, 1, Len(pages) - 1))
             item == pages[Len(pages)]
             made == HeapBasedPage_new(done.counter, item.contents)
         IN  [heap |-> Append(done.heap, Arc_new(made.page)),
              counter |-> made.counter,
              ret |-> Append(done.ret,
                             [index |-> item.index, page |-> Len(done.heap) + 1])]

Reverse(s) == [i \in 1..Len(s) |-> s[Len(s) + 1 - i]]

allocate_reversed(st, pages) == allocate_collect(st, Reverse(pages))

RECURSIVE Dedup(_)
Dedup(s) ==
    IF s = <<>>
    THEN <<>>
    ELSE LET front == Dedup(SubSeq(s, 1, Len(s) - 1))
             x == s[Len(s)]
         IN  IF \E i \in 1..Len(front) : front[i].index = x.index
             THEN front
             ELSE Append(front, x)

allocate_dedup(st, pages) == allocate_collect(st, Dedup(pages))

\* an allocator that consults the counter and rejects the batch
allocate_limited(st, pages) ==
    IF st.counter > 0
    THEN [heap |-> st.heap, counter |-> st.counter, ret |-> <<>>]
    ELSE allocate_collect(st, pages)

allocate(st, pages) == allocate_collect(st, pages)

serialize_empty == [tag |-> "Empty"]

serialize == [tag |-> "Heap"]

deserialize_any(serialized_page_allocator) == Ok(DefaultAllocator)

deserialize(serialized_page_allocator) ==
    IF serialized_page_allocator.tag = "Heap"
    THEN Ok(DefaultAllocator)
    ELSE Panic

serialize_page_delta_drop_last(h, page_delta) ==
    HeapDelta([i \in 1..(Len(page_delta) - 1) |->
                 [index |-> page_delta[i].index,
                  bytes |-> contents(h, page_delta[i].page)]])

serialize_page_delta_empty_tag(h, page_delta) ==
    IF page_delta = <<>>
    THEN EmptyDelta
    ELSE HeapDelta([i \in 1..Len(page_delta) |->
                      [index |-> page_delta[i].index,
                       bytes |-> contents(h, page_delta[i].page)]])

serialize_page_delta(h, page_delta) ==
    HeapDelta([i \in 1..Len(page_delta) |->
                 [index |-> page_delta[i].index,
                  bytes |-> contents(h, page_delta[i].page)]])

\* The Heap arm builds HeapBasedPage(page.bytes) directly: HeapBasedPage::new
\* is not called, so ALLOCATED_PAGES is not incremented here.
RECURSIVE deserialize_heap_pages(_, _)
deserialize_heap_pages(st, records) ==
    IF records = <<>>
    THEN [heap |-> st.heap, counter |-> st.counter, ret |-> Ok(<<>>)]
    ELSE LET done == deserialize_heap_pages(st, SubSeq(records, 1, Len(records) - 1))
             page == records[Len(records)]
         IN  [heap |-> Append(done.heap, Arc_new(page.bytes)),
              counter |-> done.counter,
              ret |-> Ok(Append(done.ret.val,
                                [index |-> page.index, page |-> Len(done.heap) + 1]))]

\* a decoder that hands out an existing page whose bytes equal the record's
RECURSIVE deserialize_shared_pages(_, _)
deserialize_shared_pages(st, records) ==
    IF records = <<>>
    THEN [heap |-> st.heap, counter |-> st.counter, ret |-> Ok(<<>>)]
    ELSE LET done == deserialize_shared_pages(st, SubSeq(records, 1, Len(records) - 1))
             page == records[Len(records)]
             same == {p \in Live(done.heap) : contents(done.heap, p) = page.bytes}
         IN  IF same = {}
             THEN [heap |-> Append(done.heap, Arc_new(page.bytes)),
                   counter |-> done.counter,
                   ret |-> Ok(Append(done.ret.val,
                                     [index |-> page.index, page |-> Len(done.heap) + 1]))]
             ELSE [heap |-> done.heap,
                   counter |-> done.counter,
                   ret |-> Ok(Append(done.ret.val,
                                     [index |-> page.index,
                                      page |-> CHOOSE p \in same : TRUE]))]

deserialize_page_delta_shared(st, page_delta) ==
    IF page_delta.tag = "Heap"
    THEN deserialize_shared_pages(st, page_delta.pages)
    ELSE [heap |-> st.heap, counter |-> st.counter, ret |-> Panic]

deserialize_page_delta_lenient(st, page_delta) ==
    deserialize_heap_pages(st, IF page_delta.tag = "Heap" THEN page_delta.pages ELSE <<>>)

deserialize_page_delta(st, page_delta) ==
    IF page_delta.tag = "Heap"
    THEN deserialize_heap_pages(st, page_delta.pages)
    ELSE [heap |-> st.heap, counter |-> st.counter, ret |-> Panic]

(***************************************************************************)
(* Inputs.                                                                 *)
(***************************************************************************)
Pairs == [index : PageIndex, contents : PageContents]

Min(a, b) == IF a < b THEN a ELSE b

\* the batches that still fit under a cap of `cap` pages
Batches(cap) == SeqUpTo(Pairs, Min(MaxBatch, cap - Len(heap)))

DistinctIndices(s) == \A i, j \in 1..Len(s) : i # j => s[i].index # s[j].index

\* A PageDelta maps each PageIndex to one Page: iterating it yields distinct
\* indices, each with a handle to a live page.
Deltas(h) ==
    {d \in SeqUpTo([index : PageIndex, page : Live(h)],
                   Min(MaxBatch, Cardinality(PageIndex))) : DistinctIndices(d)}

\* the heap-tagged payloads that still fit under a cap of `cap` pages
HeapDeltas(cap) ==
    {HeapDelta(s) : s \in SeqUpTo([index : PageIndex, bytes : PageContents],
                                  Min(MaxBatch, cap - Len(heap)))}

Cur == [heap |-> heap, counter |-> ALLOCATED_PAGES]

(***************************************************************************)
(* Operations on the shared state (rt is left to the specification).       *)
(***************************************************************************)
AllocateUpTo(pages, cap) ==
    /\ Len(heap) + Len(pages) <= cap
    /\ LET r == allocate(Cur, pages)
       IN  /\ heap' = r.heap
           /\ ALLOCATED_PAGES' = r.counter
           /\ last' = [op |-> "allocate", arg |-> pages, ret |-> Ok(r.ret)]

Allocate(pages) == AllocateUpTo(pages, MaxPages)

Clone(p) ==
    /\ p \in Live(heap)
    /\ heap[p].strong < MaxHandles
    /\ heap' = [heap EXCEPT ![p] = Arc_clone(@)]
    /\ last' = [op |-> "clone", arg |-> p, ret |-> Ok(p)]
    /\ UNCHANGED ALLOCATED_PAGES

DropHandle(p) ==
    /\ p \in Live(heap)
    /\ LET r == Arc_drop(Cur, p)
       IN  /\ heap' = r.heap
           /\ ALLOCATED_PAGES' = r.counter
    /\ last' = [op |-> "drop", arg |-> p, ret |-> Ok(<<>>)]

Serialize ==
    /\ last' = [op |-> "serialize", arg |-> DefaultAllocator, ret |-> Ok(serialize)]
    /\ UNCHANGED <<heap, ALLOCATED_PAGES>>

Deserialize(tag) ==
    /\ last' = [op |-> "deserialize", arg |-> tag, ret |-> deserialize(tag)]
    /\ UNCHANGED <<heap, ALLOCATED_PAGES>>

SerializePageDelta(page_delta) ==
    /\ last' = [op |-> "serialize_page_delta", arg |-> page_delta,
                ret |-> Ok(serialize_page_delta(heap, page_delta))]
    /\ UNCHANGED <<heap, ALLOCATED_PAGES>>

DeserializePageDeltaUpTo(page_delta, cap) ==
    /\ page_delta.tag = "Heap" => Len(heap) + Len(page_delta.pages) <= cap
    /\ LET r == deserialize_page_delta(Cur, page_delta)
       IN  /\ heap' = r.heap
           /\ ALLOCATED_PAGES' = r.counter
           /\ last' = [op |-> "deserialize_page_delta", arg |-> page_delta, ret |-> r.ret]

DeserializePageDelta(page_delta) == DeserializePageDeltaUpTo(page_delta, MaxPages)

(***************************************************************************)
(* Spec: any sequence of calls by the owner of the allocator.              *)
(***************************************************************************)
NoCall == [op |-> "none", arg |-> <<>>, ret |-> Ok(<<>>)]

Idle == [pc |-> "idle", pairs |-> <<>>]

\* the state of the parts a specification does not use
NoThreads == <<>>

NoHandle == [public_api_endpoints |-> <<>>, malicious_public_api_endpoints |-> <<>>]

NoPoll == [pc |-> "idle"]

DriverIdle ==
    /\ threads = NoThreads
    /\ handle = NoHandle
    /\ taken = <<>>
    /\ poll = NoPoll

Init ==
    /\ heap = <<>>
    /\ ALLOCATED_PAGES = 0
    /\ last = NoCall
    /\ rt = Idle
    /\ DriverIdle

Next ==
    \/ \E pages \in Batches(MaxPages) : Allocate(pages) /\ UNCHANGED others
    \/ \E p \in 1..Len(heap) : Clone(p) /\ UNCHANGED others
    \/ \E p \in 1..Len(heap) : DropHandle(p) /\ UNCHANGED others
    \/ Serialize /\ UNCHANGED others
    \/ \E tag \in AllocatorTags : Deserialize(tag) /\ UNCHANGED others
    \/ \E d \in Deltas(heap) : SerializePageDelta(d) /\ UNCHANGED others
    \/ \E pd \in HeapDeltas(MaxPages) \cup {EmptyDelta} \cup MmapDeltas :
          DeserializePageDelta(pd) /\ UNCHANGED others

Spec == Init /\ [][Next]_vars

(***************************************************************************)
(* SpecAccounting: allocate, clone and drop only, up to MaxAccPages pages. *)
(***************************************************************************)
AccBatches ==
    SeqUpTo([index : {3}, contents : PageContents], Min(MaxBatch, MaxAccPages - Len(heap)))

AccNext ==
    \/ \E pages \in AccBatches : AllocateUpTo(pages, MaxAccPages) /\ UNCHANGED others
    \/ \E p \in 1..Len(heap) : Clone(p) /\ UNCHANGED others
    \/ \E p \in 1..Len(heap) : DropHandle(p) /\ UNCHANGED others

SpecAccounting == Init /\ [][AccNext]_vars

(***************************************************************************)
(* SpecRoundTrip: allocate a batch, serialize the pages it returned,       *)
(* deserialize the payload.                                                *)
(***************************************************************************)
RoundTripBatches ==
    {b \in SeqUpTo([index : PageIndex, contents : PageBytes], MaxBatch) :
        b # <<>> /\ DistinctIndices(b)}

RTInit ==
    /\ heap = <<>>
    /\ ALLOCATED_PAGES = 0
    /\ last = NoCall
    /\ rt \in [pc : {"start"}, pairs : RoundTripBatches]
    /\ DriverIdle

RTAllocate ==
    /\ rt.pc = "start"
    /\ AllocateUpTo(rt.pairs, 2 * MaxBatch)
    /\ rt' = [rt EXCEPT !.pc = "allocated"]
    /\ UNCHANGED driver

RTSerialize ==
    /\ rt.pc = "allocated"
    /\ SerializePageDelta(last.ret.val)
    /\ rt' = [rt EXCEPT !.pc = "serialized"]
    /\ UNCHANGED driver

RTDeserialize ==
    /\ rt.pc = "serialized"
    /\ DeserializePageDeltaUpTo(last.ret.val, 2 * MaxBatch)
    /\ rt' = [rt EXCEPT !.pc = "done"]
    /\ UNCHANGED driver

RTNext == RTAllocate \/ RTSerialize \/ RTDeserialize

SpecRoundTrip == RTInit /\ [][RTNext]_vars

(***************************************************************************)
(* SpecWellFormed: a caller that only decodes payloads it obtained from    *)
(* serialize_page_delta.  rt.pc tells whether `last` holds such a payload. *)
(***************************************************************************)
Serialized == [pc |-> "serialized", pairs |-> <<>>]

Decoded == [pc |-> "decoded", pairs |-> <<>>]

WFAllocate(pages) == AllocateUpTo(pages, MaxBatch) /\ rt' = Idle /\ UNCHANGED driver

WFDrop(p) == DropHandle(p) /\ rt' = Idle /\ UNCHANGED driver

WFSerialize(d) == SerializePageDelta(d) /\ rt' = Serialized /\ UNCHANGED driver

WFDeserialize ==
    /\ rt.pc = "serialized"
    /\ DeserializePageDeltaUpTo(last.ret.val, 2 * MaxBatch)
    /\ rt' = Decoded
    /\ UNCHANGED driver

WFNext ==
    \/ \E pages \in Batches(MaxBatch) : WFAllocate(pages)
    \/ \E p \in 1..Len(heap) : WFDrop(p)
    \/ \E d \in Deltas(heap) : WFSerialize(d)
    \/ WFDeserialize

SpecWellFormed == Init /\ [][WFNext]_vars

(***************************************************************************)
(* PageInner for HeapBasedPage: contents and copy_from_slice.              *)
(***************************************************************************)
\* offsets and slices handed to copy_from_slice
Offsets == 0..PageSize

\* slices of every length that repeat one byte value
Slices == {[i \in 1..n |-> b] : n \in 0..PageSize, b \in ByteVals}

\* (self.0[offset..offset + slice.len()]).copy_from_slice(slice): indexing
\* panics when the range ends past the page, before any byte is written.
\* The result is the outcome and the page's bytes after the call.
copy_from_slice_at_zero(bytes, offset, slice) ==
    IF offset + Len(slice) <= Len(bytes)
    THEN [status |-> "ok",
          val |-> [i \in 1..Len(bytes) |-> IF i <= Len(slice) THEN slice[i] ELSE bytes[i]]]
    ELSE [status |-> "panic", val |-> bytes]

copy_from_slice_partial(bytes, offset, slice) ==
    [status |-> IF offset + Len(slice) <= Len(bytes) THEN "ok" ELSE "panic",
     val |-> [i \in 1..Len(bytes) |->
                IF offset < i /\ i <= offset + Len(slice) THEN slice[i - offset] ELSE bytes[i]]]

copy_from_slice(bytes, offset, slice) ==
    IF offset + Len(slice) <= Len(bytes)
    THEN [status |-> "ok",
          val |-> [i \in 1..Len(bytes) |->
                     IF offset < i /\ i <= offset + Len(slice) THEN slice[i - offset] ELSE bytes[i]]]
    ELSE [status |-> "panic", val |-> bytes]

\* contents(&self, allocator) on a live page
Contents(p) ==
    /\ p \in Live(heap)
    /\ last' = [op |-> "contents", arg |-> p, ret |-> Ok(contents(heap, p))]
    /\ UNCHANGED <<heap, ALLOCATED_PAGES>>

\* copy_from_slice(&mut self, ..): the caller has exclusive access to the page
CopyFromSlice(p, offset, slice) ==
    /\ p \in Live(heap)
    /\ heap[p].strong = 1
    /\ LET r == copy_from_slice(heap[p].storage, offset, slice)
       IN  /\ heap' = [heap EXCEPT ![p].storage = r.val]
           /\ last' = [op |-> "copy_from_slice",
                       arg |-> [page |-> p, offset |-> offset, slice |-> slice],
                       ret |-> [status |-> r.status, val |-> <<>>]]
    /\ UNCHANGED ALLOCATED_PAGES

(***************************************************************************)
(* SpecWrite: pages are allocated, read, written, serialized and dropped,  *)
(* and the allocator identity is serialized and deserialized; at most      *)
(* MaxBatch pages.                                                         *)
(***************************************************************************)
WriteNext ==
    \/ \E pages \in Batches(MaxBatch) : AllocateUpTo(pages, MaxBatch) /\ UNCHANGED others
    \/ \E p \in 1..Len(heap) : DropHandle(p) /\ UNCHANGED others
    \/ \E p \in 1..Len(heap) : Contents(p) /\ UNCHANGED others
    \/ \E p \in 1..Len(heap), offset \in Offsets, slice \in Slices :
          CopyFromSlice(p, offset, slice) /\ UNCHANGED others
    \/ Serialize /\ UNCHANGED others
    \/ \E tag \in AllocatorTags : Deserialize(tag) /\ UNCHANGED others
    \/ \E d \in Deltas(heap) : SerializePageDelta(d) /\ UNCHANGED others

SpecWrite == Init /\ [][WriteNext]_vars

(***************************************************************************)
(* SpecThreads: NumThreads threads allocate pages on one allocator and     *)
(* drop page handles.  A thread's allocate constructs its pages one by     *)
(* one; the gauge update of HeapBasedPage::new and of Drop is an atomic    *)
(* read-modify-write.  Each thread keeps the gauge value it observed last  *)
(* (stale); the update itself acts on the gauge's value at that instant.   *)
(***************************************************************************)
Threads == 1..NumThreads

\* ALLOCATED_PAGES.inc()
ALLOCATED_PAGES_inc(counter, stale) == counter + 1

\* ALLOCATED_PAGES.dec()
ALLOCATED_PAGES_dec(counter, stale) == counter - 1

ThreadIdle == [pc |-> "idle", todo |-> <<>>, stale |-> 0]

\* the batches threads allocate: the accounting does not read the contents
ThreadBatches == SeqUpTo([index : {3}, contents : {ZeroPage}], MaxBatch) \ {<<>>}

RECURSIVE PendingPages(_)
PendingPages(S) ==
    IF S = {}
    THEN 0
    ELSE LET t == CHOOSE x \in S : TRUE
         IN  Len(threads[t].todo) + PendingPages(S \ {t})

TInit ==
    /\ heap = <<>>
    /\ ALLOCATED_PAGES = 0
    /\ last = NoCall
    /\ rt = Idle
    /\ threads = [t \in Threads |-> ThreadIdle]
    /\ handle = NoHandle
    /\ taken = <<>>
    /\ poll = NoPoll

\* allocate(pages) is entered
TAllocate(t, pages) ==
    /\ threads[t].pc = "idle"
    /\ Len(heap) + PendingPages(Threads) + Len(pages) <= MaxPages
    /\ threads' = [threads EXCEPT ![t].pc = "new", ![t].todo = pages]
    /\ UNCHANGED <<heap, ALLOCATED_PAGES>>

\* HeapBasedPage::new reaches ALLOCATED_PAGES.inc()
TNewObserve(t) ==
    /\ threads[t].pc = "new"
    /\ threads' = [threads EXCEPT ![t].pc = "inc", ![t].stale = ALLOCATED_PAGES]
    /\ UNCHANGED <<heap, ALLOCATED_PAGES>>

\* a constructor that stores the value it observed plus one
TNewCommit_racy(t) ==
    /\ threads[t].pc = "inc"
    /\ ALLOCATED_PAGES' = threads[t].stale + 1
    /\ heap' = Append(heap, Arc_new(threads[t].todo[1].contents))
    /\ threads' = [threads EXCEPT ![t].todo = Tail(@),
                                  ![t].pc = IF Len(threads[t].todo) = 1 THEN "idle" ELSE "new"]

\* the gauge is updated and the page is wrapped in its Arc
TNewCommit(t) ==
    /\ threads[t].pc = "inc"
    /\ ALLOCATED_PAGES' = ALLOCATED_PAGES_inc(ALLOCATED_PAGES, threads[t].stale)
    /\ heap' = Append(heap, Arc_new(threads[t].todo[1].contents))
    /\ threads' = [threads EXCEPT ![t].todo = Tail(@),
                                  ![t].pc = IF Len(threads[t].todo) = 1 THEN "idle" ELSE "new"]

\* a handle is dropped: the Arc's count is decremented atomically, and the
\* thread that dropped the last handle runs Drop for HeapBasedPage
TDrop(t, p) ==
    /\ threads[t].pc = "idle"
    /\ p \in Live(heap)
    /\ heap' = [heap EXCEPT ![p] = IF @.strong = 1
                                   THEN [strong |-> 0, storage |-> NoStorage]
                                   ELSE [@ EXCEPT !.strong = @ - 1]]
    /\ threads' = [threads EXCEPT ![t].pc = IF heap[p].strong = 1 THEN "drop" ELSE "idle"]
    /\ UNCHANGED ALLOCATED_PAGES

\* Drop for HeapBasedPage reaches ALLOCATED_PAGES.dec()
TDropObserve(t) ==
    /\ threads[t].pc = "drop"
    /\ threads' = [threads EXCEPT ![t].pc = "dec", ![t].stale = ALLOCATED_PAGES]
    /\ UNCHANGED <<heap, ALLOCATED_PAGES>>

TDropCommit(t) ==
    /\ threads[t].pc = "dec"
    /\ ALLOCATED_PAGES' = ALLOCATED_PAGES_dec(ALLOCATED_PAGES, threads[t].stale)
    /\ threads' = [threads EXCEPT ![t].pc = "idle"]
    /\ UNCHANGED heap

\* the next step of a thread that is inside a call
TStep(t) ==
    /\ \/ TNewObserve(t)
       \/ TNewCommit(t)
       \/ TDropObserve(t)
       \/ TDropCommit(t)
    /\ UNCHANGED <<last, rt, handle, taken, poll>>

TNext ==
    \/ \E t \in Threads, pages \in ThreadBatches :
          TAllocate(t, pages) /\ UNCHANGED <<last, rt, handle, taken, poll>>
    \/ \E t \in Threads, p \in 1..Len(heap) :
          TDrop(t, p) /\ UNCHANGED <<last, rt, handle, taken, poll>>
    \/ \E t \in Threads : TNewObserve(t) /\ UNCHANGED <<last, rt, handle, taken, poll>>
    \/ \E t \in Threads : TNewCommit(t) /\ UNCHANGED <<last, rt, handle, taken, poll>>
    \/ \E t \in Threads : TDropObserve(t) /\ UNCHANGED <<last, rt, handle, taken, poll>>
    \/ \E t \in Threads : TDropCommit(t) /\ UNCHANGED <<last, rt, handle, taken, poll>>

SpecThreads == TInit /\ [][TNext]_vars

(***************************************************************************)
(* IcHandle and IcEndpoint (ic_fondue): the endpoints of a handle, the     *)
(* host of an endpoint's url, and taking endpoints out of the handle.      *)
(***************************************************************************)
None == [tag |-> "None"]

Some(v) == [tag |-> "Some", val |-> v]

\* url::Host
Hosts ==
    { [kind |-> "Domain", val |-> "some_host.com"],
      [kind |-> "Ipv4", val |-> "192.168.0.1"],
      [kind |-> "Ipv6", val |-> "2607:fb58:9005:42:5000:93ff:fe0b:5527"] }

\* IcEndpoint, reduced to its url; Url::host() is None for a url without host
Endpoints == { [url |-> [host |-> h]] : h \in {None} \cup {Some(x) : x \in Hosts} }

ip_address(e) ==
    LET h == e.url.host
    IN  IF h = None
        THEN None
        ELSE CASE h.val.kind = "Domain" -> None
               [] h.val.kind = "Ipv4" -> Some([v |-> "V4", addr |-> h.val.val])
               [] h.val.kind = "Ipv6" -> Some([v |-> "V6", addr |-> h.val.val])

hostname_any(e) ==
    LET h == e.url.host
    IN  IF h = None THEN None ELSE Some(h.val.val)

hostname(e) ==
    LET h == e.url.host
    IN  IF h = None
        THEN None
        ELSE CASE h.val.kind = "Domain" -> Some(h.val.val)
               [] h.val.kind = "Ipv4" -> None
               [] h.val.kind = "Ipv6" -> None

\* Vec::remove(index): the elements after index are shifted left
Vec_remove(v, index) ==
    [val |-> v[index + 1],
     vec |-> SubSeq(v, 1, index) \o SubSeq(v, index + 2, Len(v))]

\* Vec::swap_remove(index): the last element takes the removed one's place
Vec_swap_remove(v, index) ==
    [val |-> v[index + 1],
     vec |-> [j \in 1..(Len(v) - 1) |-> IF j = index + 1 THEN v[Len(v)] ELSE v[j]]]

\* rng.gen_range(0..len); the generator is not consulted for an empty list
gen_range(len) == IF len = 0 THEN {0} ELSE 0..(len - 1)

take_one_swap_remove(h, n) ==
    IF h.public_api_endpoints # <<>>
    THEN LET r == Vec_swap_remove(h.public_api_endpoints, n)
         IN  [ret |-> Some(r.val), handle |-> [h EXCEPT !.public_api_endpoints = r.vec]]
    ELSE [ret |-> None, handle |-> h]

\* take_one with n the number the generator returned
take_one(h, n) ==
    IF h.public_api_endpoints # <<>>
    THEN LET r == Vec_remove(h.public_api_endpoints, n)
         IN  [ret |-> Some(r.val), handle |-> [h EXCEPT !.public_api_endpoints = r.vec]]
    ELSE [ret |-> None, handle |-> h]

take_one_malicious(h, n) ==
    IF h.malicious_public_api_endpoints # <<>>
    THEN LET r == Vec_remove(h.malicious_public_api_endpoints, n)
         IN  [ret |-> Some(r.val),
              handle |-> [h EXCEPT !.malicious_public_api_endpoints = r.vec]]
    ELSE [ret |-> None, handle |-> h]

Range(s) == {s[i] : i \in 1..Len(s)}

\* lists of distinct endpoints
EndpointLists ==
    {s \in SeqUpTo(Endpoints, MaxEndpoints) : Cardinality(Range(s)) = Len(s)}

\* the handles a test is given: a node is either malicious or not
Handles ==
    {[public_api_endpoints |-> p, malicious_public_api_endpoints |-> m] :
        <<p, m>> \in {x \in EndpointLists \X EndpointLists : Range(x[1]) \cap Range(x[2]) = {}}}

HInit ==
    /\ heap = <<>>
    /\ ALLOCATED_PAGES = 0
    /\ last = NoCall
    /\ rt = Idle
    /\ threads = NoThreads
    /\ poll = NoPoll
    /\ handle \in Handles
    /\ taken = [given |-> handle, public |-> <<>>, malicious |-> <<>>]

TakeOne ==
    \E n \in gen_range(Len(handle.public_api_endpoints)) :
        LET r == take_one(handle, n)
        IN  /\ handle' = r.handle
            /\ taken' = IF r.ret = None THEN taken
                        ELSE [taken EXCEPT !.public = Append(@, r.ret.val)]
            /\ last' = [op |-> "take_one", arg |-> [handle |-> handle, n |-> n], ret |-> r.ret]

TakeOneMalicious ==
    \E n \in gen_range(Len(handle.malicious_public_api_endpoints)) :
        LET r == take_one_malicious(handle, n)
        IN  /\ handle' = r.handle
            /\ taken' = IF r.ret = None THEN taken
                        ELSE [taken EXCEPT !.malicious = Append(@, r.ret.val)]
            /\ last' = [op |-> "take_one_malicious",
                        arg |-> [handle |-> handle, n |-> n], ret |-> r.ret]

\* the endpoints the test holds after taking them out of the handle
Held == Range(taken.public) \cup Range(taken.malicious)

IpAddress(e) ==
    /\ last' = [op |-> "ip_address", arg |-> e, ret |-> ip_address(e)]
    /\ UNCHANGED <<handle, taken>>

Hostname(e) ==
    /\ last' = [op |-> "hostname", arg |-> e, ret |-> hostname(e)]
    /\ UNCHANGED <<handle, taken>>

HNext ==
    \/ TakeOne /\ UNCHANGED <<allocator, rt, threads, poll>>
    \/ TakeOneMalicious /\ UNCHANGED <<allocator, rt, threads, poll>>
    \/ \E e \in Held : IpAddress(e) /\ UNCHANGED <<allocator, rt, threads, poll>>
    \/ \E e \in Held : Hostname(e) /\ UNCHANGED <<allocator, rt, threads, poll>>

SpecHandle == HInit /\ [][HNext]_vars

(***************************************************************************)
(* IcEndpoint::assert_ready: a polling loop over healthy().  Time is in    *)
(* whole seconds since started_at (poll.now).  The endpoint is down, or    *)
(* answers with something that is not a cbor status, or is healthy.        *)
(***************************************************************************)
\* Duration::from_secs(90): the time limit of assert_ready
Deadline == 90

\* Duration::from_secs(4): the timeout of the status request
HealthTimeout == 4

\* time::interval(Duration::from_secs(1))
Interval == 1

Never == -1

NotCalled == [pc |-> "idle", now |-> 0, ep |-> "down", upAt |-> Never, since |-> 0, next |-> 0]

RInit ==
    /\ heap = <<>>
    /\ ALLOCATED_PAGES = 0
    /\ last = NoCall
    /\ rt = Idle
    /\ threads = NoThreads
    /\ handle = NoHandle
    /\ taken = <<>>
    /\ poll = NotCalled

Finished == poll.pc \in {"returned", "panicked"}

\* the model's clock stops here; no call is still running at that time
MaxClock == MaxStart + Deadline + HealthTimeout

\* one second passes: before the call, during a status request (which ends
\* within its timeout), or while the loop waits for the interval's next tick
Advance ==
    /\ ~Finished
    /\ poll.now < MaxClock
    /\ poll.pc = "idle" => poll.now < MaxStart
    /\ poll.pc = "polling" => poll.now - poll.since < HealthTimeout
    /\ poll.pc = "tick" => poll.now < poll.next
    /\ poll' = [poll EXCEPT !.now = @ + 1]
    /\ UNCHANGED last

\* the node's public API changes state
EndpointBecomes(s) ==
    /\ ~Finished
    /\ \/ poll.ep = "down" /\ s \in {"garbled", "healthy"}
       \/ poll.ep = "garbled" /\ s = "healthy"
    /\ poll' = [poll EXCEPT !.ep = s, !.upAt = IF s = "healthy" THEN poll.now ELSE @]
    /\ UNCHANGED last

\* assert_ready is called: the interval is created (its first tick is due
\* at once) and the loop enters healthy()
AssertReady ==
    /\ poll.pc = "idle"
    /\ poll' = [poll EXCEPT !.pc = "polling", !.since = poll.now, !.next = poll.now]
    /\ last' = [op |-> "assert_ready", arg |-> poll.now, ret |-> Ok(<<>>)]

\* healthy() with the endpoint in state ep: a request error is false, a
\* response that is not a cbor status panics in expect
healthy(ep) ==
    CASE ep = "down" -> Ok(<<FALSE>>)
      [] ep = "garbled" -> Panic
      [] ep = "healthy" -> Ok(<<TRUE>>)

\* a loop body without the time limit test
HealthyReturns_no_limit ==
    /\ poll.pc = "polling"
    /\ LET r == healthy(poll.ep)
       IN  /\ poll' = [poll EXCEPT !.pc =
                  IF r.status = "panic" THEN "panicked"
                  ELSE IF r.val[1] THEN "returned"
                  ELSE "tick"]
           /\ last' = [op |-> "healthy", arg |-> poll.now, ret |-> r]

\* healthy() completes and the loop body continues to its tick
HealthyReturns ==
    /\ poll.pc = "polling"
    /\ LET r == healthy(poll.ep)
       IN  /\ poll' = [poll EXCEPT !.pc =
                  IF r.status = "panic" THEN "panicked"
                  ELSE IF r.val[1] THEN "returned"
                  ELSE IF poll.now > Deadline THEN "panicked"
                  ELSE "tick"]
           /\ last' = [op |-> "healthy", arg |-> poll.now, ret |-> r]

\* interval.tick() completes: at once if the tick is due, and the next tick
\* is one period later
IntervalTick ==
    /\ poll.pc = "tick"
    /\ poll.now >= poll.next
    /\ poll' = [poll EXCEPT !.pc = "polling", !.since = poll.now, !.next = @ + Interval]
    /\ last' = [op |-> "tick", arg |-> poll.now, ret |-> Ok(<<>>)]

RNext ==
    \/ Advance /\ UNCHANGED <<allocator, rt, threads, handle, taken>>
    \/ \E s \in {"garbled", "healthy"} :
          EndpointBecomes(s) /\ UNCHANGED <<allocator, rt, threads, handle, taken>>
    \/ AssertReady /\ UNCHANGED <<allocator, rt, threads, handle, taken>>
    \/ HealthyReturns /\ UNCHANGED <<allocator, rt, threads, handle, taken>>
    \/ IntervalTick /\ UNCHANGED <<allocator, rt, threads, handle, taken>>

SpecReady == RInit /\ [][RNext]_vars

\* what the runtime guarantees: the clock advances, a status request
\* completes (by its timeout at the latest) and a due tick is delivered
Progress ==
    /\ Advance \/ HealthyReturns \/ IntervalTick
    /\ UNCHANGED <<allocator, rt, threads, handle, taken>>

SpecReadyFair == RInit /\ [][RNext]_vars /\ WF_poll(Progress)

(***************************************************************************)
(* SpecSnapshot: a batch is allocated (the source pages), serialized with  *)
(* serialize_page_delta (the payload) and decoded with                     *)
(* deserialize_page_delta (the deserialized pages); after serialization    *)
(* its owner writes to source pages and to deserialized pages.             *)
(***************************************************************************)
SnapIdle == [pc |-> "idle", src |-> <<>>, payload |-> HeapDelta(<<>>), dst |-> <<>>]

SnInit ==
    /\ heap = <<>>
    /\ ALLOCATED_PAGES = 0
    /\ last = NoCall
    /\ rt = SnapIdle
    /\ DriverIdle

SnAllocate(pages) ==
    /\ rt.pc = "idle"
    /\ pages # <<>>
    /\ DistinctIndices(pages)
    /\ AllocateUpTo(pages, MaxBatch)
    /\ rt' = [rt EXCEPT !.pc = "allocated", !.src = last'.ret.val]

SnSerialize ==
    /\ rt.pc = "allocated"
    /\ SerializePageDelta(rt.src)
    /\ rt' = [rt EXCEPT !.pc = "serialized", !.payload = last'.ret.val]

SnDeserialize ==
    /\ rt.pc = "serialized"
    /\ DeserializePageDeltaUpTo(rt.payload, 2 * MaxBatch)
    /\ rt' = [rt EXCEPT !.pc = "decoded", !.dst = last'.ret.val]

\* a write of a prefix of the page
SnCopy(p, slice) ==
    /\ rt.pc \in {"serialized", "decoded"}
    /\ slice # <<>>
    /\ CopyFromSlice(p, 0, slice)
    /\ UNCHANGED rt

SnNext ==
    \/ \E pages \in Batches(MaxBatch) : SnAllocate(pages) /\ UNCHANGED driver
    \/ SnSerialize /\ UNCHANGED driver
    \/ SnDeserialize /\ UNCHANGED driver
    \/ \E p \in 1..Len(heap), slice \in Slices : SnCopy(p, slice) /\ UNCHANGED driver

SpecSnapshot == SnInit /\ [][SnNext]_vars

(***************************************************************************)
(* Properties.                                                             *)
(***************************************************************************)
Slots(h) == 1..Len(h)

\* the (index, contents) pairs read through a list of (index, page) handles
Read(h, out) == {<<out[i].index, contents(h, out[i].page)>> : i \in 1..Len(out)}

\* C1: heap round trip.  For every non-empty batch with pairwise distinct
\* indices, deserialize_page_delta(serialize_page_delta(allocate(batch)))
\* returns exactly one entry per input pair, with the same indices and, index
\* for index, contents byte-equal to the input.
C1_RoundTrip ==
    rt.pc = "done" =>
        /\ last.ret.status = "ok"
        /\ Len(last.ret.val) = Len(rt.pairs)
        /\ DistinctIndices(last.ret.val)
        /\ Read(heap, last.ret.val) =
               {<<rt.pairs[i].index, rt.pairs[i].contents>> : i \in 1..Len(rt.pairs)}

C1_Witness ==
    /\ rt.pc = "done"
    /\ rt.pairs = <<[index |-> 3, contents |-> ZeroPage], [index |-> 7, contents |-> FFPage]>>
    /\ Len(last.ret.val) = 2
    /\ Read(heap, last.ret.val) = {<<3, ZeroPage>>, <<7, FFPage>>}

\* C2: accounting conservation.  After any sequence of allocate, clone and
\* drop, ALLOCATED_PAGES equals its initial value (0) plus the pages allocated
\* minus the pages whose last handle was dropped.
C2_AccountingConservation ==
    ALLOCATED_PAGES = 0 + Len(heap) - Cardinality(Released(heap))

C2_Witness ==
    /\ Len(heap) = 5
    /\ Cardinality(Released(heap)) = 3
    /\ ALLOCATED_PAGES = 2

\* C3: live-page invariant.  In every state reachable by allocate,
\* deserialize_page_delta, clone and drop, ALLOCATED_PAGES equals the number
\* of pages still reachable through at least one handle.
C3_LivePageCounter == ALLOCATED_PAGES = Cardinality(Live(heap))

\* C4: deserialize_page_delta of a heap-tagged payload of n records creates n
\* fresh pages and increments ALLOCATED_PAGES by exactly n.
C4_DeserializeIncrements ==
    [][(last'.op = "deserialize_page_delta" /\ last'.arg.tag = "Heap") =>
          /\ Len(heap') = Len(heap) + Len(last'.arg.pages)
          /\ ALLOCATED_PAGES' = ALLOCATED_PAGES + Len(last'.arg.pages)]_vars

\* C5: shared ownership.  Dropping a handle other than the last leaves the
\* contents read through the remaining handles byte-identical, and a page's
\* storage is never released while a handle to it exists.
C5_SharedOwnership ==
    [][/\ \A p \in Slots(heap) :
             (last'.op = "drop" /\ last'.arg = p /\ heap[p].strong >= 2) =>
                 /\ heap'[p].strong >= 1
                 /\ contents(heap', p) = contents(heap, p)
       /\ \A p \in Slots(heap') : heap'[p].strong >= 1 => contents(heap', p) \in PageBytes]_vars

C5_Witness ==
    /\ last.op = "drop"
    /\ heap[last.arg].strong = 1
    /\ contents(heap, last.arg) = FFPage

\* C6: release happens exactly once and exactly at the last drop.  Clone and
\* the drop of a handle that is not the last leave ALLOCATED_PAGES unchanged;
\* the drop of the last handle releases the page and decrements the counter by
\* exactly 1; a released page stays released, and every decrement releases
\* exactly as many pages as it counts.
C6_ReleaseOnce ==
    [][/\ last'.op = "clone" =>
             /\ ALLOCATED_PAGES' = ALLOCATED_PAGES
             /\ Released(heap') = Released(heap)
       /\ \A p \in Slots(heap) :
             (last'.op = "drop" /\ last'.arg = p) =>
                 IF heap[p].strong >= 2
                 THEN /\ ALLOCATED_PAGES' = ALLOCATED_PAGES
                      /\ Released(heap') = Released(heap)
                 ELSE /\ ALLOCATED_PAGES' = ALLOCATED_PAGES - 1
                      /\ Released(heap') = Released(heap) \cup {p}
                      /\ p \notin Released(heap)
       /\ \A p \in Released(heap) : heap'[p] = heap[p]
       /\ ALLOCATED_PAGES' < ALLOCATED_PAGES =>
             Cardinality(Released(heap') \ Released(heap)) =
                 ALLOCATED_PAGES - ALLOCATED_PAGES']_vars

C6_Witness ==
    /\ last.op = "drop"
    /\ last.arg \in Released(heap)
    /\ \E q \in Live(heap) : heap[q].strong = 2

\* C7: cross-tag rejection for page deltas.  deserialize_page_delta of a
\* payload that is not heap-tagged (Mmap or Empty) panics and creates no
\* page; whether it panics depends only on the payload's tag.
C7_CrossTagDelta ==
    [][last'.op = "deserialize_page_delta" =>
          IF last'.arg.tag = "Heap"
          THEN last'.ret.status = "ok"
          ELSE /\ last'.ret = Panic
               /\ heap' = heap
               /\ ALLOCATED_PAGES' = ALLOCATED_PAGES]_vars

C7_Witness ==
    /\ last.op = "deserialize_page_delta"
    /\ last.arg.tag = "Mmap"
    /\ last.arg.pages # <<>>
    /\ last.ret = Panic
    /\ Live(heap) # {}

\* C8: cross-tag rejection for the allocator identity.  deserialize returns a
\* default heap allocator if and only if the tag is Heap; given Mmap or Empty
\* it panics.
C8_CrossTagAllocator ==
    last.op = "deserialize" =>
        /\ last.ret = Ok(DefaultAllocator) <=> last.arg.tag = "Heap"
        /\ last.arg.tag \in {"Mmap", "Empty"} => last.ret = Panic

C8_Witness ==
    /\ last.op = "deserialize"
    /\ last.arg.tag = "Mmap"
    /\ last.ret = Panic

\* C9: allocator-identity round trip.  After any sequence of operations,
\* serialize() returns the Heap tag, which carries no payload, and
\* deserialize of it succeeds with an allocator equal to the one serialized
\* (the allocator type has a single value, so it behaves identically).
C9_AllocatorRoundTrip ==
    last.op = "serialize" =>
        /\ last.ret = Ok([tag |-> "Heap"])
        /\ deserialize(last.ret.val) = Ok(last.arg)

C9_Witness ==
    /\ last.op = "serialize"
    /\ Live(heap) # {}
    /\ Released(heap) # {}

\* C10: allocate never fails and preserves order and contents.  For a batch
\* of n pairs (n >= 0) it returns n pairs, the i-th carrying the i-th input's
\* index and a fresh page with the i-th input's bytes, and it increments
\* ALLOCATED_PAGES by exactly n.
C10_AllocateContract ==
    [][last'.op = "allocate" =>
          LET in == last'.arg
              out == last'.ret.val
          IN  /\ last'.ret.status = "ok"
              /\ Len(out) = Len(in)
              /\ \A i \in 1..Len(in) :
                    /\ out[i].index = in[i].index
                    /\ out[i].page = Len(heap) + i
                    /\ contents(heap', out[i].page) = in[i].contents
                    /\ heap'[out[i].page].strong = 1
              /\ Len(heap') = Len(heap) + Len(in)
              /\ \A p \in Slots(heap) : heap'[p] = heap[p]
              /\ ALLOCATED_PAGES' = ALLOCATED_PAGES + Len(in)]_vars

C10_Witness ==
    /\ last.op = "allocate"
    /\ Len(last.arg) = 2
    /\ last.arg[1] # last.arg[2]
    /\ Len(heap) = 3
    /\ ALLOCATED_PAGES = 3

\* C11: well-formed callers never reach the fatal path.  Every payload
\* produced by serialize_page_delta, for any input including an empty
\* iterator, is heap-tagged, and deserialize_page_delta decodes it without
\* panicking into exactly as many pages as the payload has records.
C11_WellFormedNoPanic ==
    /\ last.ret.status = "ok"
    /\ rt.pc = "serialized" =>
          /\ last.ret.val.tag = "Heap"
          /\ Len(last.ret.val.pages) = Len(last.arg)
    /\ rt.pc = "decoded" =>
          /\ last.arg.tag = "Heap"
          /\ Len(last.ret.val) = Len(last.arg.pages)
          /\ \A i \in 1..Len(last.ret.val) : last.ret.val[i].page \in Live(heap)

C11_Witness ==
    /\ rt.pc = "decoded"
    /\ last.arg = HeapDelta(<<>>)
    /\ last.ret = Ok(<<>>)
    /\ Live(heap) # {}

\* C12: copy_from_slice frame.  When offset + slice.len() <= page size, the
\* call makes bytes [offset, offset + slice.len()) of the page equal to slice
\* and leaves every other byte of that page, the page's size, every other
\* page and ALLOCATED_PAGES unchanged.
C12_CopyFrame ==
    [][(last'.op = "copy_from_slice"
          /\ last'.arg.offset + Len(last'.arg.slice) <= PageSize) =>
          LET p == last'.arg.page
              offset == last'.arg.offset
              slice == last'.arg.slice
          IN  /\ last'.ret = Ok(<<>>)
              /\ DOMAIN contents(heap', p) = 1..PageSize
              /\ \A i \in 1..PageSize :
                    contents(heap', p)[i] =
                        IF offset < i /\ i <= offset + Len(slice)
                        THEN slice[i - offset]
                        ELSE contents(heap, p)[i]
              /\ heap'[p].strong = heap[p].strong
              /\ Len(heap') = Len(heap)
              /\ \A q \in Slots(heap) \ {p} : heap'[q] = heap[q]
              /\ ALLOCATED_PAGES' = ALLOCATED_PAGES]_vars

C12_Witness ==
    /\ last.op = "copy_from_slice"
    /\ last.ret = Ok(<<>>)
    /\ last.arg.offset = 1
    /\ last.arg.slice = <<255>>
    /\ contents(heap, last.arg.page)[1] = 0
    /\ contents(heap, last.arg.page)[2] = 255
    /\ Cardinality(Live(heap)) >= 2

\* C13: an out-of-range write is fatal and has no effect.  When
\* offset + slice.len() > page size, copy_from_slice panics and no byte of
\* the page (nor anything else) has been modified.
C13_CopyOutOfRange ==
    [][(last'.op = "copy_from_slice"
          /\ last'.arg.offset + Len(last'.arg.slice) > PageSize) =>
          /\ last'.ret = Panic
          /\ heap' = heap
          /\ ALLOCATED_PAGES' = ALLOCATED_PAGES]_vars

C13_Witness ==
    /\ last.op = "copy_from_slice"
    /\ last.ret = Panic
    /\ last.arg.offset = PageSize - 1
    /\ Len(last.arg.slice) = 2
    /\ last.arg.slice[1] # contents(heap, last.arg.page)[PageSize]

Indices(s) == [i \in 1..Len(s) |-> s[i].index]

\* C14 (as claimed): a PageIndex appears at most once in any batch returned
\* by allocate, payload produced by serialize_page_delta or list returned by
\* deserialize_page_delta, and allocate rejects a batch that contains the
\* same PageIndex twice.
C14_IndexUniqueness ==
    /\ last.op = "allocate" =>
          /\ last.ret.status = "ok" => DistinctIndices(last.ret.val)
          /\ ~DistinctIndices(last.arg) => last.ret.status # "ok"
    /\ last.op = "serialize_page_delta" => DistinctIndices(last.ret.val.pages)
    /\ (last.op = "deserialize_page_delta" /\ last.ret.status = "ok") =>
          DistinctIndices(last.ret.val)

\* C14 (amended): allocate, serialize_page_delta and deserialize_page_delta
\* return exactly the index sequence of their input, so an index appears at
\* most once in the output whenever it does in the input; allocate does not
\* reject a batch with a repeated PageIndex, it returns one page per pair.
C14_IndexPreserved ==
    /\ last.op = "allocate" =>
          /\ last.ret.status = "ok"
          /\ Indices(last.ret.val) = Indices(last.arg)
    /\ last.op = "serialize_page_delta" =>
          Indices(last.ret.val.pages) = Indices(last.arg)
    /\ (last.op = "deserialize_page_delta" /\ last.arg.tag = "Heap") =>
          Indices(last.ret.val) = Indices(last.arg.pages)

C14_Witness ==
    /\ last.op = "allocate"
    /\ Len(last.arg) = 2
    /\ last.arg[1].index = last.arg[2].index
    /\ last.ret.status = "ok"
    /\ Len(last.ret.val) = 2
    /\ last.ret.val[1].page # last.ret.val[2].page
    /\ last.ret.val[1].index = last.ret.val[2].index

Quiescent == \A t \in Threads : threads[t].pc = "idle"

\* C15: concurrent accounting.  Under every interleaving of threads that
\* allocate pages and drop handles no counter update is lost: once all
\* threads are quiescent ALLOCATED_PAGES equals its initial value (0) plus
\* the pages constructed minus the pages destroyed; and no thread waits for
\* another: a thread inside a call can always take its next step.
C15_ConcurrentAccounting ==
    /\ Quiescent => ALLOCATED_PAGES = 0 + Len(heap) - Cardinality(Released(heap))
    /\ \A t \in Threads : threads[t].pc # "idle" => ENABLED TStep(t)

\* two threads observed the gauge at 0 and both constructed a page
C15_Witness ==
    /\ Quiescent
    /\ Len(heap) = 2
    /\ Released(heap) = {}
    /\ threads[1].stale = 0
    /\ threads[2].stale = 0
    /\ ALLOCATED_PAGES = 2

\* the endpoints of the handle the test was given
GivenEndpoints ==
    Range(taken.given.public_api_endpoints)
        \cup Range(taken.given.malicious_public_api_endpoints)

\* C16: endpoint host classification.  hostname() is Some(name) exactly when
\* the url's host is a domain name, ip_address() is Some(addr) exactly when
\* the host is an IPv4 or IPv6 literal (and it is that address); the two are
\* never both Some, and both are None for a url without host.
C16_HostClassification ==
    /\ last.op = "hostname" =>
          LET h == last.arg.url.host
          IN  /\ last.ret.tag = "Some" <=> (h.tag = "Some" /\ h.val.kind = "Domain")
              /\ last.ret.tag = "Some" => last.ret.val = h.val.val
    /\ last.op = "ip_address" =>
          LET h == last.arg.url.host
          IN  /\ last.ret.tag = "Some" <=> (h.tag = "Some" /\ h.val.kind \in {"Ipv4", "Ipv6"})
              /\ last.ret.tag = "Some" =>
                    /\ last.ret.val.addr = h.val.val
                    /\ last.ret.val.v = "V4" <=> h.val.kind = "Ipv4"
                    /\ last.ret.val.v = "V6" <=> h.val.kind = "Ipv6"
    /\ \A e \in GivenEndpoints :
          /\ ~(hostname(e).tag = "Some" /\ ip_address(e).tag = "Some")
          /\ e.url.host = None => (hostname(e) = None /\ ip_address(e) = None)

\* ip_address() was called on an endpoint whose url has an IPv6 literal host
C16_Witness ==
    /\ last.op = "ip_address"
    /\ last.ret.tag = "Some"
    /\ last.ret.val.v = "V6"
    /\ \E e \in GivenEndpoints : e.url.host = None

Count(e, s) == Cardinality({i \in 1..Len(s) : s[i] = e})

\* `after` is `before` without its element at position i (counted from 1)
RemovedAt(before, after, i) ==
    /\ Len(after) = Len(before) - 1
    /\ \A j \in 1..Len(after) : after[j] = IF j < i THEN before[j] ELSE before[j + 1]

\* C18: take_one returns None iff public_api_endpoints is empty, leaving the
\* handle unchanged; otherwise it returns an element of the list and removes
\* exactly that element, keeping the others in order, and leaves the
\* malicious list alone; take_one_malicious mirrors it.  Every endpoint of
\* the given handle is either still listed or was returned once, so after n
\* successful calls on n endpoints each was returned exactly once and the
\* list is empty (the next call returns None).
C18_TakeOne ==
    /\ last.op = "take_one" =>
          LET before == last.arg.handle
          IN  /\ last.ret = None <=> before.public_api_endpoints = <<>>
              /\ last.ret = None => handle = before
              /\ last.ret # None =>
                    \E i \in 1..Len(before.public_api_endpoints) :
                        /\ last.ret.val = before.public_api_endpoints[i]
                        /\ RemovedAt(before.public_api_endpoints,
                                     handle.public_api_endpoints, i)
              /\ handle.malicious_public_api_endpoints = before.malicious_public_api_endpoints
    /\ last.op = "take_one_malicious" =>
          LET before == last.arg.handle
          IN  /\ last.ret = None <=> before.malicious_public_api_endpoints = <<>>
              /\ last.ret = None => handle = before
              /\ last.ret # None =>
                    \E i \in 1..Len(before.malicious_public_api_endpoints) :
                        /\ last.ret.val = before.malicious_public_api_endpoints[i]
                        /\ RemovedAt(before.malicious_public_api_endpoints,
                                     handle.malicious_public_api_endpoints, i)
              /\ handle.public_api_endpoints = before.public_api_endpoints
    /\ \A e \in Endpoints :
          /\ Count(e, taken.public) + Count(e, handle.public_api_endpoints)
                = Count(e, taken.given.public_api_endpoints)
          /\ Count(e, taken.malicious) + Count(e, handle.malicious_public_api_endpoints)
                = Count(e, taken.given.malicious_public_api_endpoints)
    /\ Len(taken.public) = Len(taken.given.public_api_endpoints) =>
          handle.public_api_endpoints = <<>>

\* three endpoints were taken from a list of three, the first from the
\* front of the list, and the fourth call returned None
C18_Witness ==
    /\ last.op = "take_one"
    /\ last.ret = None
    /\ Len(taken.given.public_api_endpoints) = 3
    /\ Len(taken.public) = 3
    /\ taken.public[1] = taken.given.public_api_endpoints[1]

\* C17: assert_ready returns at the first poll at which healthy() is true,
\* and panics if the endpoint did not come up before the deadline (90
\* seconds after started_at): a call that has returned did so on a healthy
\* poll, and a call that has ended for an endpoint that was not healthy by
\* the deadline has panicked.
C17_ReadyOrPanic ==
    /\ poll.pc = "returned" <=> (last.op = "healthy" /\ last.ret = Ok(<<TRUE>>))
    /\ (Finished /\ (poll.upAt = Never \/ poll.upAt > Deadline)) => poll.pc = "panicked"

\* the pages named by a list of (index, page) handles
PagesOf(out) == {out[i].page : i \in 1..Len(out)}

\* C19: serialization is a snapshot copy.  The payload holds its own copy of
\* the bytes and each deserialized page owns a fresh buffer: a later
\* copy_from_slice on a source page changes neither the payload nor any
\* deserialized page, and a copy_from_slice on a deserialized page changes
\* neither the payload nor any source page.
C19_SnapshotCopy ==
    [][(last'.op = "copy_from_slice" /\ rt.pc \in {"serialized", "decoded"}) =>
          LET p == last'.arg.page
          IN  /\ rt'.payload = rt.payload
              /\ PagesOf(rt.src) \cap PagesOf(rt.dst) = {}
              /\ p \in PagesOf(rt.src) =>
                    \A q \in PagesOf(rt.dst) : contents(heap', q) = contents(heap, q)
              /\ p \in PagesOf(rt.dst) =>
                    \A q \in PagesOf(rt.src) : contents(heap', q) = contents(heap, q)]_vars

\* after decoding, a write changed a source page: the payload and the
\* deserialized page of the same index still hold the serialized bytes
C19_Witness ==
    /\ rt.pc = "decoded"
    /\ last.op = "copy_from_slice"
    /\ last.ret = Ok(<<>>)
    /\ last.arg.page \in PagesOf(rt.src)
    /\ \E i \in 1..Len(rt.src) :
          /\ rt.src[i].page = last.arg.page
          /\ contents(heap, rt.src[i].page) # rt.payload.pages[i].bytes
          /\ contents(heap, rt.dst[i].page) = rt.payload.pages[i].bytes

\* the operations that neither construct nor destroy a page
NonConstructing ==
    {"contents", "copy_from_slice", "serialize", "deserialize", "serialize_page_delta"}

\* values the counter could have at a call
CounterValues == 0..MaxPages

\* C20: the counter is mutated only by page construction and destruction.
\* contents, copy_from_slice, serialize, deserialize and
\* serialize_page_delta leave ALLOCATED_PAGES, the set of pages and every
\* page's contents unchanged (copy_from_slice excepted for the range it
\* writes), and the result of allocate, pages and return value, is the same
\* whatever value the counter has.
C20_CounterFrame ==
    [][/\ last'.op \in NonConstructing =>
             /\ ALLOCATED_PAGES' = ALLOCATED_PAGES
             /\ Len(heap') = Len(heap)
             /\ \A p \in 1..Len(heap) :
                   /\ heap'[p].strong = heap[p].strong
                   /\ (last'.op = "copy_from_slice" /\ last'.arg.page = p)
                         => \A i \in 1..PageSize :
                               (i <= last'.arg.offset
                                  \/ i > last'.arg.offset + Len(last'.arg.slice))
                                 => contents(heap', p)[i] = contents(heap, p)[i]
                   /\ ~(last'.op = "copy_from_slice" /\ last'.arg.page = p)
                         => contents(heap', p) = contents(heap, p)
       /\ last'.op = "allocate" =>
             \A c \in CounterValues :
                 LET r == allocate([heap |-> heap, counter |-> c], last'.arg)
                 IN  /\ r.ret = last'.ret.val
                     /\ r.heap = heap'
                     /\ r.counter - c = ALLOCATED_PAGES' - ALLOCATED_PAGES]_vars

\* allocate was called while one page was live (the counter was 1)
C20_Witness ==
    /\ last.op = "allocate"
    /\ Len(last.arg) = 1
    /\ Len(heap) = 2
    /\ Released(heap) = {}
    /\ ALLOCATED_PAGES = 2

\* C21: assert_ready always terminates.  Given that the clock advances and
\* that every status request completes, a call to assert_ready eventually
\* returns or panics, also for an endpoint that never becomes healthy.
C21_Terminates == (poll.pc # "idle") ~> Finished

\* a call on an endpoint that was never healthy has ended in the panic of
\* the time limit
C21_Witness ==
    /\ poll.pc = "panicked"
    /\ poll.ep = "down"
    /\ poll.upAt = Never
    /\ last.op = "healthy"
    /\ last.ret = Ok(<<FALSE>>)
    /\ poll.now > Deadline

====
